---- MODULE Spec2Model ----
(***************************************************************************)
(* Model of the notebook UCAS_data_analysis.py (jupytext "percent" format). *)
(* The notebook is a straight line of code cells run by one kernel.  The    *)
(* state is the kernel's namespace, the tables bound in it, the two files   *)
(* it touches and the position of the next cell.  Strings are TLA+ strings; *)
(* startswith / contains / slicing are computed character by character.     *)
(***************************************************************************)
EXTENDS Integers, Sequences, FiniteSets, TLC

\* ---------------------------------------------------------------- bounds
\* largest number of rows of UCAS_data_file.csv that is explored
MaxRows == 2

\* ---------------------------------------------------------------- strings
Min(a, b) == IF a < b THEN a ELSE b

\* x[:n]
Prefix(s, n) == SubSeq(s, 1, Min(n, Len(s)))

\* str.startswith(p)
StartsWith(s, p) == Len(s) >= Len(p) /\ SubSeq(s, 1, Len(p)) = p

\* `p in s` and str.contains(p) for a pattern without metacharacters
Contains(s, p) ==
    \E i \in 1..(Len(s) - Len(p) + 1) : SubSeq(s, i, i + Len(p) - 1) = p

\* str.contains('a|b|c'): the alternation matches when one alternative does
ContainsAny(s, alts) == \E k \in 1..Len(alts) : Contains(s, alts[k])

Upper == <<"A","B","C","D","E","F","G","H","I","J","K","L","M",
           "N","O","P","Q","R","S","T","U","V","W","X","Y","Z">>
Lower == <<"a","b","c","d","e","f","g","h","i","j","k","l","m",
           "n","o","p","q","r","s","t","u","v","w","x","y","z">>

LowerChar(c) ==
    IF \E k \in 1..26 : Upper[k] = c
    THEN Lower[CHOOSE k \in 1..26 : Upper[k] = c]
    ELSE c

RECURSIVE LowerCase(_)
LowerCase(s) ==
    IF Len(s) = 0 THEN s
    ELSE LowerChar(SubSeq(s, 1, 1)) \o LowerCase(SubSeq(s, 2, Len(s)))

\* str.contains('a|b|c', case=False)
ContainsAnyNoCase(s, alts) ==
    \E k \in 1..Len(alts) : Contains(LowerCase(s), LowerCase(alts[k]))

\* ---------------------------------------------------------------- values
\* a cell of the float column `value`: a number <<n>> or missing <<>>
NaN == <<>>
Num(n) == <<n>>
IsNa(v) == v = NaN

\* ---------------------------------------------------------------- tables
\* a DataFrame: the column labels in order and the rows in order; every row
\* is a record over the columns plus the row label "index"
Frame(cols, rows) == [columns |-> cols, rows |-> rows]

InputColumns == <<"inst_all", "INSTITUTION_CODE", "Cycle", "agegroup",
                  "equality_dimension", "statistic", "value">>

\* df.loc[mask]: the selected rows, in order, row labels kept
Loc(df, rows) == Frame(df.columns, rows)

Range(f) == {f[x] : x \in DOMAIN f}

\* df[col].unique() as a set
Unique(df, col) == {r[col] : r \in Range(df.rows)}

\* df.drop(columns=col)
DropColumn(df, col) ==
    Frame(SelectSeq(df.columns, LAMBDA c : c # col),
          [k \in DOMAIN df.rows |->
              [f \in (DOMAIN df.rows[k]) \ {col} |-> df.rows[k][f]]])

\* df.reset_index(drop=True)
ResetIndex(df) ==
    Frame(df.columns,
          [k \in DOMAIN df.rows |-> [df.rows[k] EXCEPT !.index = k - 1]])

NoFrame == Frame(<<>>, <<>>)

\* ---------------------------------------------------------------- cleaning
\* line 145: all(data['inst_all'].apply(lambda x: x[:3]) == data['INSTITUTION_CODE'])
CodeIsRedundant(df) ==
    \A r \in Range(df.rows) : Prefix(r.inst_all, 3) = r.INSTITUTION_CODE

\* line 148: data.drop(columns='INSTITUTION_CODE')
DropInstitutionCode(df) == DropColumn(df, "INSTITUTION_CODE")

\* the filter with a dropna() chained to it
InstitutionFilterDropNa(df) ==
    Loc(df, SelectSeq(df.rows, LAMBDA r : /\ ~StartsWith(r.inst_all, "A66")
                              /\ ~StartsWith(r.inst_all, "W01")
                              /\ ~StartsWith(r.inst_all, "W05")
                              /\ ~IsNa(r.value)))

\* str.contains in place of str.startswith
DroppedInstitutionContains(name) ==
    \/ Contains(name, "A66")
    \/ Contains(name, "W01")
    \/ Contains(name, "W05")

\* lines 211-215: the three dropped institutions
DroppedInstitution(name) ==
    \/ StartsWith(name, "A66")
    \/ StartsWith(name, "W01")
    \/ StartsWith(name, "W05")

InstitutionFilter(df) ==
    Loc(df, SelectSeq(df.rows, LAMBDA r : ~DroppedInstitution(r.inst_all)))

\* numeric maximum of a non-empty set of numbers
MaxOf(S) == CHOOSE m \in S : \A x \in S : x <= m

\* groupby(...).max()['value'] of one group: NaN is skipped, and a group
\* without any number has NaN
GroupMax(rows) ==
    LET nums == {r.value[1] : r \in {q \in Range(rows) : ~IsNa(q.value)}}
    IN  IF nums = {} THEN NaN ELSE Num(MaxOf(nums))

\* line 199: .apply(int) raises ValueError on a NaN maximum
MaxByInstRaises(df) ==
    \E name \in Unique(df, "inst_all") :
        IsNa(GroupMax(SelectSeq(df.rows, LAMBDA r : r.inst_all = name)))

\* lines 202-205: the (inst_all, Cycle) groups whose maximum value is 0
ZeroYears(df) ==
    {p \in {<<r.inst_all, r.Cycle>> : r \in Range(df.rows)} :
        GroupMax(SelectSeq(df.rows,
                 LAMBDA r : r.inst_all = p[1] /\ r.Cycle = p[2])) = Num(0)}

\* line 300: data.loc[data['agegroup'] != 'All ages'].reset_index(drop=True)
KeptAgegroup(age) == age # "All ages"

AgegroupFilter(df) ==
    ResetIndex(Loc(df, SelectSeq(df.rows, LAMBDA r : KeptAgegroup(r.agegroup))))

\* "the rest": every value that is neither an ethnicity nor a sex value
PolarColsRest(df) ==
    {c \in Unique(df, "equality_dimension") :
        ~Contains(c, "ethnic") /\ ~Contains(c, "en")}

\* only the first 'POLAR' value met in the table
PolarColsFirst(df) ==
    LET m == SelectSeq(df.rows, LAMBDA r : Contains(r.equality_dimension, "POLAR"))
    IN  IF m = <<>> THEN {} ELSE {m[1].equality_dimension}

\* lines 314-316: the lists are used for membership only; modelled as sets
EthnicityCols(df) == {c \in Unique(df, "equality_dimension") : Contains(c, "ethnic")}
GenderCols(df) == {c \in Unique(df, "equality_dimension") : Contains(c, "en")}
PolarCols(df) == {c \in Unique(df, "equality_dimension") : Contains(c, "POLAR")}

\* line 330: data.loc[data['equality_dimension'].isin(polar_cols)]
KeptDimension(dim, cols) == dim \in cols

PolarFilter(df, cols) ==
    Loc(df, SelectSeq(df.rows, LAMBDA r : KeptDimension(r.equality_dimension, cols)))

\* line 342: to_csv writes the row labels as a first column with an empty name
ToCsv(df) ==
    Frame(<<"">> \o df.columns,
          [k \in DOMAIN df.rows |->
              [f \in ((DOMAIN df.rows[k]) \ {"index"}) \cup {""} |->
                  IF f = "" THEN df.rows[k].index ELSE df.rows[k][f]]])

\* line 101: read_csv labels the rows 0, 1, 2, ...
ReadCsv(file) ==
    Frame(file.columns,
          [k \in DOMAIN file.rows |->
              [f \in (DOMAIN file.rows[k]) \cup {"index"} |->
                  IF f = "index" THEN k - 1 ELSE file.rows[k][f]]])

\* ---------------------------------------------------------------- age groups
\* line 264: str.contains('per 10|rate|percent'), case sensitive
IsRateStatistic(stat) == ContainsAny(stat, <<"per 10", "rate", "percent">>)

\* lines 262-267
AgegroupData(df) ==
    DropColumn(
        Loc(df, SelectSeq(df.rows, LAMBDA r : /\ r.equality_dimension = "Total"
                                  /\ ~IsRateStatistic(r.statistic))),
        "equality_dimension")

\* lines 270-271
Agegroup18Data(ad) ==
    DropColumn(Loc(ad, SelectSeq(ad.rows, LAMBDA r : r.agegroup = "18 year olds")), "agegroup")
AgegroupAllData(ad) ==
    DropColumn(Loc(ad, SelectSeq(ad.rows, LAMBDA r : r.agegroup # "18 year olds")), "agegroup")

MergeKey(r) == <<r.inst_all, r.Cycle, r.statistic>>

MergedRow(key, v18, vall) ==
    [inst_all |-> key[1], Cycle |-> key[2], statistic |-> key[3],
     value_18yo |-> v18, value_all |-> vall]

\* the rows a right join makes of one row of the right table: one per
\* matching row of the left table, or one with a missing left value
RightJoinRow(left, r) ==
    LET m == SelectSeq(left, LAMBDA l : MergeKey(l) = MergeKey(r))
    IN  IF m = <<>> THEN <<MergedRow(MergeKey(r), NaN, r.value)>>
        ELSE [k \in DOMAIN m |-> MergedRow(MergeKey(r), m[k].value, r.value)]

RECURSIVE RightJoinRows(_, _)
RightJoinRows(left, right) ==
    IF right = <<>> THEN <<>>
    ELSE RightJoinRow(left, Head(right)) \o RightJoinRows(left, Tail(right))

\* line 277: how='right'
JoinRows(left, right) == RightJoinRows(left, right)

\* line 284: float division; x/0 is inf and 0/0, like anything with NaN, NaN
Ratio(a, b) ==
    IF IsNa(a) \/ IsNa(b) \/ (a = Num(0) /\ b = Num(0)) THEN NaN
    ELSE <<a[1], b[1]>>

\* lines 274-284: the merge, relabelled 0, 1, ..., with the proportion column
AgegroupsData(a18, aall) ==
    LET j == JoinRows(a18.rows, aall.rows)
    IN  Frame(<<"inst_all", "Cycle", "statistic", "value_18yo", "value_all",
                "18yo_proportion">>,
              [k \in DOMAIN j |->
                 [f \in (DOMAIN j[k]) \cup {"index", "18yo_proportion"} |->
                    IF f = "index" THEN k - 1
                    ELSE IF f = "18yo_proportion"
                         THEN Ratio(j[k].value_18yo, j[k].value_all)
                         ELSE j[k][f]]])

\* ---------------------------------------------------------------- analysis
\* lines 396-399: str.contains('B32|M20|E14|S18|K60|Y50', case=False)
IsChosenUniversity(name) ==
    ContainsAnyNoCase(name, <<"B32", "M20", "E14", "S18", "K60", "Y50">>)

UniversitiesData(df) == Loc(df, SelectSeq(df.rows, LAMBDA r : IsChosenUniversity(r.inst_all)))

\* line 434: pd.to_datetime(year, format='%Y') is the first of January
ToDatetime(year) == <<year, 1, 1>>

CycleToDatetime(df) ==
    Frame(df.columns,
          [k \in DOMAIN df.rows |->
              [df.rows[k] EXCEPT !.Cycle = ToDatetime(df.rows[k].Cycle)]])

RECURSIVE SumValues(_)
SumValues(rows) ==
    IF rows = <<>> THEN 0 ELSE Head(rows).value[1] + SumValues(Tail(rows))

PivotKey(r) == <<r.inst_all, r.statistic, r.equality_dimension, r.Cycle>>

\* lines 414-418: pivot_table with the default aggfunc 'mean' and dropna: a
\* cell is the mean <<sum, count>> of the values that are not missing among
\* the rows of its index and Cycle; a cell without any such row is missing
\* and is left out. `rows` are the labels of the rows the mean is taken over.
PivotTable(df) ==
    {[inst_all |-> key[1], statistic |-> key[2], equality_dimension |-> key[3],
      Cycle |-> key[4],
      rows |-> {r.index : r \in {q \in Range(df.rows) :
                                    PivotKey(q) = key /\ ~IsNa(q.value)}},
      mean |-> LET g == SelectSeq(df.rows,
                           LAMBDA q : PivotKey(q) = key /\ ~IsNa(q.value))
               IN  <<SumValues(g), Len(g)>>] :
        key \in {PivotKey(r) : r \in {q \in Range(df.rows) : ~IsNa(q.value)}}}

\* lines 437-444
UniversitiesOrder ==
    <<"B32 University of Birmingham",
      "M20 University of Manchester",
      "E14 University of East Anglia UEA",
      "S18 University of Sheffield",
      "K60 Kings College London University of London",
      "Y50 University of York">>

\* lines 454 and 508
WithStatistic(df, stat) == Loc(df, SelectSeq(df.rows, LAMBDA r : r.statistic = stat))

\* ---------------------------------------------------------------- input
\* one line of UCAS_data_file.csv
FileRow(inst, codeOk, cycle, age, dim, stat, val) ==
    [inst_all |-> inst,
     INSTITUTION_CODE |-> IF codeOk THEN Prefix(inst, 3) ELSE "XXX",
     Cycle |-> cycle, agegroup |-> age, equality_dimension |-> dim,
     statistic |-> stat, value |-> val]

Insts == {"B32 University of Birmingham", "M20 University of Manchester",
          "A66 Arts", "W01 West", "W05 Wales", "C99 Club32 A66"}
Cycles == {2010, 2011}
Agegroups == {"18 year olds", "All ages", "19 year olds"}
Dimensions == {"POLAR4 Q1", "Total", "Men", "Asian ethnic group", "POLAR4 Men"}
Statistics == {"Offers", "Offer rate", "Entry Rate"}
Values == {Num(1), Num(0), Num(-1), NaN}

RowParams == Insts \X BOOLEAN \X Cycles \X Agegroups \X Dimensions
             \X Statistics \X Values

BaseParams ==
    {<<"B32 University of Birmingham", TRUE, 2010, "18 year olds", d,
       "Offers", Num(1)>> : d \in {"POLAR4 Q1", "Total"}}

\* in how many columns two lines differ
Distance(p, q) == Cardinality({k \in 1..7 : p[k] # q[k]})

\* the lines explored: a base line with at most one column changed
RowPool ==
    {FileRow(p[1], p[2], p[3], p[4], p[5], p[6], p[7]) :
        p \in {q \in RowParams : \E b \in BaseParams : Distance(q, b) <= 1}}

Files ==
    {Frame(InputColumns, rows) :
        rows \in UNION {[1..n -> RowPool] : n \in 0..MaxRows}}

\* ---------------------------------------------------------------- notebook
S(u, b) == [uses |-> u, binds |-> b]
C(id, stmts) == [id |-> id, stmts |-> stmts]

\* the code cells, each with the names its statements read and bind
CodeCells == <<
    C("imports", <<S({}, {"pd"}), S({}, {"ProfileReport"}), S({}, {"seaborn"}),
                   S({"sns"}, {}), S({}, {"alt"})>>),
    C("matplotlib", <<>>),
    C("read_csv", <<S({"pd"}, {"data"})>>),
    C("info", <<S({"data"}, {})>>),
    C("profile", <<>>),
    C("unique_values", <<S({"data"}, {"i"})>>),
    C("show_codes", <<S({"data"}, {})>>),
    C("check_codes", <<S({"data"}, {})>>),
    C("drop_code", <<S({"data"}, {"data"})>>),
    C("describe", <<S({"data"}, {})>>),
    C("negatives", <<S({"data"}, {})>>),
    C("data_null", <<S({"data"}, {"data_null"}), S({"data_null"}, {"i"})>>),
    C("max_by_inst", <<S({"data"}, {})>>),
    C("zero_years", <<S({"data"}, {})>>),
    C("inst_filter", <<S({"data"}, {"data"})>>),
    C("data_na", <<S({"data"}, {"data_na"}), S({"data_na"}, {"i"})>>),
    C("agegroups", <<S({"data"}, {"agegroup_data"}),
                     S({"agegroup_data"}, {"agegroup_18_data"}),
                     S({"agegroup_data"}, {"agegroup_all_data"}),
                     S({"pd", "agegroup_18_data", "agegroup_all_data"},
                       {"agegroups_data"}),
                     S({"agegroups_data"}, {}),
                     S({"agegroups_data"}, {})>>),
    C("histplot", <<S({"sns", "agegroups_data"}, {})>>),
    C("age_filter", <<S({"data"}, {"data"})>>),
    C("dimension_cols", <<S({"data"}, {"ethnicity_cols"}),
                          S({"data"}, {"gender_cols"}),
                          S({"data"}, {"polar_cols"}),
                          S({"ethnicity_cols", "gender_cols", "polar_cols"}, {})>>),
    C("polar_filter", <<S({"data", "polar_cols"}, {"data"})>>),
    C("statistics", <<S({"data"}, {})>>),
    C("to_csv", <<S({"data"}, {})>>),
    C("find_uob", <<S({"data"}, {})>>),
    C("find_reference", <<S({"data"}, {})>>),
    C("find_models", <<S({"data"}, {})>>),
    C("universities_data", <<S({"data"}, {"universities_data"})>>),
    C("any_missing", <<S({"universities_data"}, {})>>),
    C("pivot", <<S({"universities_data"}, {})>>),
    C("to_datetime", <<S({"pd", "universities_data"}, {}),
                       S({}, {"universities_order"})>>),
    C("offer_rate", <<S({"universities_data"}, {"offer_rate"})>>),
    C("offer_chart", <<S({"alt", "offer_rate", "universities_order"}, {"chart"}),
                       S({"chart"}, {})>>),
    C("placed_applicants", <<S({"universities_data"}, {"placed_applicants"})>>),
    C("placed_chart", <<S({"alt", "placed_applicants", "universities_order"},
                          {"chart"}),
                        S({"chart"}, {})>> ) >>

\* to_csv run only after universities_data has been selected
CellsWriteLate ==
    [k \in DOMAIN CodeCells |->
        IF k \in 23..26 THEN CodeCells[k + 1]
        ELSE IF k = 27 THEN CodeCells[23]
        ELSE CodeCells[k]]

\* the order of execution: top to bottom
Cells == CodeCells

\* the cells that only display something or bind names that are not tracked
ShowIds == {"matplotlib", "info", "profile", "unique_values", "show_codes",
            "describe", "negatives", "data_null", "zero_years", "data_na",
            "histplot", "statistics", "find_uob", "find_reference",
            "find_models", "any_missing"}

RECURSIVE Exec(_, _)
\* the statements of a cell run in order; reading an unbound name raises
\* NameError, which ends the cell and keeps the bindings made so far
Exec(stmts, names) ==
    IF stmts = <<>> THEN [ns |-> names, ok |-> TRUE]
    ELSE IF Head(stmts).uses \subseteq names
         THEN Exec(Tail(stmts), names \cup Head(stmts).binds)
         ELSE [ns |-> names, ok |-> FALSE]

VARIABLES
    mode,               \* "run_all": an error stops the run; "interactive": the next cell is run anyway
    file,               \* UCAS_data_file.csv
    written,            \* data_clean.csv, NoFrame until written
    io,                 \* the file operations made, in order
    pc,                 \* the next cell
    status,             \* "running", "error", "done"
    ns,                 \* the names bound in the kernel
    errors,             \* the cells that raised
    hist,               \* the cells that ran to their end, in order
    data,
    redundant,          \* the value displayed by line 145
    agegroup_data, agegroup_18_data, agegroup_all_data, agegroups_data,
    ethnicity_cols, gender_cols, polar_cols,
    universities_data, universities_order, offer_rate, placed_applicants,
    pivot               \* the table displayed by lines 414-418

kernel == <<pc, status, ns, errors, hist>>
agevars == <<agegroup_data, agegroup_18_data, agegroup_all_data, agegroups_data>>
colvars == <<ethnicity_cols, gender_cols, polar_cols>>
univars == <<universities_data, universities_order, offer_rate, placed_applicants,
             pivot>>
vars == <<mode, file, written, io, kernel, data, redundant, agevars, colvars, univars>>

Init ==
    /\ mode \in {"run_all", "interactive"}
    /\ file \in Files
    /\ written = NoFrame
    /\ io = <<>>
    /\ pc = 1
    /\ status = "running"
    /\ ns = {}
    /\ errors = {}
    /\ hist = <<>>
    /\ data = NoFrame
    /\ redundant = "unset"
    /\ agegroup_data = NoFrame
    /\ agegroup_18_data = NoFrame
    /\ agegroup_all_data = NoFrame
    /\ agegroups_data = NoFrame
    /\ ethnicity_cols = {}
    /\ gender_cols = {}
    /\ polar_cols = {}
    /\ universities_data = NoFrame
    /\ universities_order = <<>>
    /\ offer_rate = NoFrame
    /\ placed_applicants = NoFrame
    /\ pivot = {}

Cell == Cells[pc]
Outcome == Exec(Cell.stmts, ns)

At(id) == status = "running" /\ Cell.id = id

\* what every cell does to the kernel; ok: the cell ran to its end
Finish(ok) ==
    /\ ns' = Outcome.ns
    /\ errors' = IF ok THEN errors ELSE errors \cup {pc}
    /\ hist' = IF ok THEN Append(hist, Cell.id) ELSE hist
    /\ IF ~ok /\ mode = "run_all"
       THEN pc' = pc /\ status' = "error"
       ELSE /\ pc' = IF pc = Len(Cells) THEN pc ELSE pc + 1
            /\ status' = IF pc = Len(Cells) THEN "done" ELSE "running"
    /\ UNCHANGED <<mode, file>>

\* lines 90-95
Imports ==
    /\ At("imports")
    /\ Finish(Outcome.ok)
    /\ UNCHANGED <<written, io, data, redundant, agevars, colvars, univars>>

\* lines 100-101
CellReadCsv ==
    /\ At("read_csv")
    /\ Finish(Outcome.ok)
    /\ data' = IF Outcome.ok THEN ReadCsv(file) ELSE data
    /\ io' = IF Outcome.ok
             THEN Append(io, [op |-> "read", path |-> "./UCAS_data_file.csv"])
             ELSE io
    /\ UNCHANGED <<written, redundant, agevars, colvars, univars>>

\* the cells of ShowIds
Show ==
    /\ status = "running"
    /\ Cell.id \in ShowIds
    /\ Finish(Outcome.ok)
    /\ UNCHANGED <<written, io, data, redundant, agevars, colvars, univars>>

\* lines 144-145
CheckCodes ==
    /\ At("check_codes")
    /\ Finish(Outcome.ok)
    /\ redundant' = IF Outcome.ok THEN CodeIsRedundant(data) ELSE redundant
    /\ UNCHANGED <<written, io, data, agevars, colvars, univars>>

\* lines 147-148
DropCode ==
    /\ At("drop_code")
    /\ Finish(Outcome.ok)
    /\ data' = IF Outcome.ok THEN DropInstitutionCode(data) ELSE data
    /\ UNCHANGED <<written, io, redundant, agevars, colvars, univars>>

\* lines 198-199
MaxByInst ==
    /\ At("max_by_inst")
    /\ Finish(Outcome.ok /\ ~MaxByInstRaises(data))
    /\ UNCHANGED <<written, io, data, redundant, agevars, colvars, univars>>

\* lines 210-215
InstFilter ==
    /\ At("inst_filter")
    /\ Finish(Outcome.ok)
    /\ data' = IF Outcome.ok THEN InstitutionFilter(data) ELSE data
    /\ UNCHANGED <<written, io, redundant, agevars, colvars, univars>>

\* lines 259-286
Agegroups1 ==
    /\ At("agegroups")
    /\ Finish(Outcome.ok)
    /\ IF Outcome.ok
       THEN LET ad == AgegroupData(data)
                a18 == Agegroup18Data(ad)
                aall == AgegroupAllData(ad)
            IN  /\ agegroup_data' = ad
                /\ agegroup_18_data' = a18
                /\ agegroup_all_data' = aall
                /\ agegroups_data' = AgegroupsData(a18, aall)
       ELSE UNCHANGED agevars
    /\ UNCHANGED <<written, io, data, redundant, colvars, univars>>

\* lines 299-300
AgeFilter ==
    /\ At("age_filter")
    /\ Finish(Outcome.ok)
    /\ data' = IF Outcome.ok THEN AgegroupFilter(data) ELSE data
    /\ UNCHANGED <<written, io, redundant, agevars, colvars, univars>>

\* lines 311-322
DimensionCols ==
    /\ At("dimension_cols")
    /\ Finish(Outcome.ok)
    /\ IF Outcome.ok
       THEN /\ ethnicity_cols' = EthnicityCols(data)
            /\ gender_cols' = GenderCols(data)
            /\ polar_cols' = PolarCols(data)
       ELSE UNCHANGED colvars
    /\ UNCHANGED <<written, io, data, redundant, agevars, univars>>

\* lines 329-330
CellPolarFilter ==
    /\ At("polar_filter")
    /\ Finish(Outcome.ok)
    /\ data' = IF Outcome.ok THEN PolarFilter(data, polar_cols) ELSE data
    /\ UNCHANGED <<written, io, redundant, agevars, colvars, univars>>

\* lines 341-342
CellToCsv ==
    /\ At("to_csv")
    /\ Finish(Outcome.ok)
    /\ written' = IF Outcome.ok THEN ToCsv(data) ELSE written
    /\ io' = IF Outcome.ok
             THEN Append(io, [op |-> "write", path |-> "./data_clean.csv"])
             ELSE io
    /\ UNCHANGED <<data, redundant, agevars, colvars, univars>>

\* lines 394-399
CellUniversitiesData ==
    /\ At("universities_data")
    /\ Finish(Outcome.ok)
    /\ universities_data' =
           IF Outcome.ok THEN UniversitiesData(data) ELSE universities_data
    /\ UNCHANGED <<written, io, data, redundant, agevars, colvars,
                   universities_order, offer_rate, placed_applicants, pivot>>

\* lines 413-418
Pivot ==
    /\ At("pivot")
    /\ Finish(Outcome.ok)
    /\ pivot' = IF Outcome.ok THEN PivotTable(universities_data) ELSE pivot
    /\ UNCHANGED <<written, io, data, redundant, agevars, colvars,
                   universities_data, universities_order, offer_rate,
                   placed_applicants>>

\* lines 432-444
CellToDatetime ==
    /\ At("to_datetime")
    /\ Finish(Outcome.ok)
    /\ IF Outcome.ok
       THEN /\ universities_data' = CycleToDatetime(universities_data)
            /\ universities_order' = UniversitiesOrder
       ELSE UNCHANGED <<universities_data, universities_order>>
    /\ UNCHANGED <<written, io, data, redundant, agevars, colvars,
                   offer_rate, placed_applicants, pivot>>

\* lines 452-454
OfferRate ==
    /\ At("offer_rate")
    /\ Finish(Outcome.ok)
    /\ offer_rate' = IF Outcome.ok
                     THEN WithStatistic(universities_data, "Offer rate")
                     ELSE offer_rate
    /\ UNCHANGED <<written, io, data, redundant, agevars, colvars,
                   universities_data, universities_order, placed_applicants,
                   pivot>>

\* lines 506-508
PlacedApplicants ==
    /\ At("placed_applicants")
    /\ Finish(Outcome.ok)
    /\ placed_applicants' =
           IF Outcome.ok
           THEN WithStatistic(universities_data, "Placed June deadline applicants")
           ELSE placed_applicants
    /\ UNCHANGED <<written, io, data, redundant, agevars, colvars,
                   universities_data, universities_order, offer_rate, pivot>>

\* lines 456-481 and 510-535
Chart ==
    /\ status = "running"
    /\ Cell.id \in {"offer_chart", "placed_chart"}
    /\ Finish(Outcome.ok)
    /\ UNCHANGED <<written, io, data, redundant, agevars, colvars, univars>>

Next ==
    \/ Imports
    \/ CellReadCsv
    \/ Show
    \/ CheckCodes
    \/ DropCode
    \/ MaxByInst
    \/ InstFilter
    \/ Agegroups1
    \/ AgeFilter
    \/ DimensionCols
    \/ CellPolarFilter
    \/ CellToCsv
    \/ CellUniversitiesData
    \/ Pivot
    \/ CellToDatetime
    \/ OfferRate
    \/ PlacedApplicants
    \/ Chart

Spec == Init /\ [][Next]_vars

\* ---------------------------------------------------------------- properties
Ran(id) == id \in Range(hist)
Before(a, b) == \A i, j \in DOMAIN hist : hist[i] = a /\ hist[j] = b => i < j

SixColumns == {"inst_all", "Cycle", "agegroup", "equality_dimension",
               "statistic", "value"}
FiveColumns == SixColumns \ {"value"}
Cells6(r) == [c \in SixColumns |-> r[c]]
Cells5(r) == [c \in FiveColumns |-> r[c]]

\* how many rows of a table have the six cells x
Copies(rows, x) == Cardinality({k \in DOMAIN rows : Cells6(rows[k]) = x})

\* C1: a run of the cells from top to bottom raises no error: no cell reads
\* a name that no earlier statement has bound, so the run is never stopped
\* by an error.
C1_RunCompletesWithoutError == errors = {} /\ status # "error"

CleaningSteps == {"drop_code", "inst_filter", "age_filter", "polar_filter"}
AnalysisSteps == {"universities_data", "to_datetime", "offer_rate",
                  "offer_chart", "placed_applicants", "placed_chart"}

\* C2: in a run that reached the last cell exactly one file has been read,
\* UCAS_data_file.csv, once, and exactly one written, data_clean.csv, once;
\* the write comes after the four cleaning steps and before every step of
\* the analysis, and what was written is the table the cleaning left.
C2_OneReadOneWriteAfterCleaning ==
    status = "done" =>
        /\ io = <<[op |-> "read", path |-> "./UCAS_data_file.csv"],
                  [op |-> "write", path |-> "./data_clean.csv"]>>
        /\ \A c \in CleaningSteps : Ran(c) /\ Before(c, "to_csv")
        /\ \A a \in AnalysisSteps : Before("to_csv", a)
        /\ Ran("to_csv") /\ Ran("universities_data") /\ Ran("to_datetime")
        /\ written = ToCsv(data)

C2_Witness ==
    /\ status = "done"
    /\ Len(io) = 2
    /\ Len(file.rows) = 2
    /\ Len(written.rows) = 1
    /\ Len(universities_data.rows) = 1

\* C3: the cleaning removes rows and the column INSTITUTION_CODE and alters
\* no cell: every row of `data`, and of data_clean.csv, has the six cells of
\* a line of the input, at most as many times as the input has it; whether a
\* line is kept does not depend on its value, so negative and missing values
\* are neither dropped for being so nor changed.
C3_CleaningOnlyRemoves ==
    /\ \A x \in {Cells6(r) : r \in Range(data.rows)} :
          Copies(data.rows, x) <= Copies(file.rows, x)
    /\ Ran("drop_code") =>
          data.columns = SelectSeq(InputColumns, LAMBDA c : c # "INSTITUTION_CODE")
    /\ Ran("to_csv") =>
          /\ written.columns = <<"">> \o data.columns
          /\ \A w \in Range(written.rows) : DOMAIN w = SixColumns \cup {""}
          /\ \A x \in {Cells6(w) : w \in Range(written.rows)} :
                Copies(written.rows, x) = Copies(file.rows, x)
          /\ \A f, g \in Range(file.rows) :
                Cells5(f) = Cells5(g) =>
                    (Copies(written.rows, Cells6(f)) = 0
                        <=> Copies(written.rows, Cells6(g)) = 0)

C3_Witness ==
    /\ Ran("to_csv")
    /\ Len(written.rows) = 2
    /\ \E w \in Range(written.rows) : w.value = Num(-1)
    /\ \E w \in Range(written.rows) : w.value = NaN

\* C4: once the agegroup filter has run, every row of `data` has agegroup
\* '18 year olds', whatever the input table.
C4_OnlyEighteenYearOlds ==
    Ran("age_filter") =>
        \A r \in Range(data.rows) : r.agegroup = "18 year olds"

PolarStep == At("polar_filter") /\ Outcome.ok

DroppedCodes == {"A66", "W01", "W05"}

\* C6: the institution filter removes exactly the rows whose inst_all starts
\* with 'A66', 'W01' or 'W05' and keeps every other row, in order and
\* unchanged; from then on no such row is in `data` or in data_clean.csv.
C6_InstitutionFilterExact ==
    /\ [](Ran("inst_filter") =>
            \A r \in Range(data.rows) \cup Range(written.rows) :
                Prefix(r.inst_all, 3) \notin DroppedCodes)
    /\ [][At("inst_filter") /\ Outcome.ok =>
            /\ data'.rows = SelectSeq(data.rows,
                    LAMBDA r : Prefix(r.inst_all, 3) \notin DroppedCodes)
            /\ data'.columns = data.columns]_vars

C6_Witness ==
    /\ Ran("inst_filter")
    /\ \E f \in Range(file.rows) : Prefix(f.inst_all, 3) \in DroppedCodes
    /\ \E r \in Range(data.rows) : r.inst_all = "C99 Club32 A66"

\* C7: whenever the drop of INSTITUTION_CODE is executed the check of line
\* 145 has evaluated to true, that is inst_all[:3] equals INSTITUTION_CODE in
\* every row; the drop leaves every other column and every row as they were.
C7_DropOnlyIfRedundant ==
    [][At("drop_code") /\ Outcome.ok =>
        /\ redundant = TRUE
        /\ \A r \in Range(data.rows) : Prefix(r.inst_all, 3) = r.INSTITUTION_CODE
        /\ data'.columns = SelectSeq(data.columns,
                               LAMBDA c : c # "INSTITUTION_CODE")
        /\ Len(data'.rows) = Len(data.rows)
        /\ \A k \in DOMAIN data.rows :
              \A c \in (DOMAIN data.rows[k]) \ {"INSTITUTION_CODE"} :
                  data'.rows[k][c] = data.rows[k][c]]_vars

Keys(df) == {MergeKey(r) : r \in Range(df.rows)}

\* C8: agegroups_data is the left join of agegroup_18_data with
\* agegroup_all_data on (inst_all, Cycle, statistic): it has a row for every
\* key of agegroup_18_data, with value_all missing when agegroup_all_data has
\* no such key, and no row for a key that only agegroup_all_data has.
C8_MergeIsLeftJoin ==
    Ran("agegroups") =>
        /\ Keys(agegroups_data) = Keys(agegroup_18_data)
        /\ \A r \in Range(agegroups_data.rows) :
              MergeKey(r) \notin Keys(agegroup_all_data) => IsNa(r.value_all)

\* C9: once the institution filter has run, no (inst_all, Cycle) pair of
\* `data` has 0 as the maximum of its values.
C9_NoAllZeroYearLeft ==
    Ran("inst_filter") =>
        \A r \in Range(data.rows) :
            LET vals == {q.value[1] :
                           q \in {x \in Range(data.rows) :
                                     /\ x.inst_all = r.inst_all
                                     /\ x.Cycle = r.Cycle
                                     /\ ~IsNa(x.value)}}
            IN  ~(0 \in vals /\ \A v \in vals : v <= 0)

\* C10: universities_data holds the rows of exactly the six universities of
\* universities_order: each of its rows has one of the six labels as
\* inst_all, and every row of `data` with one of the six labels is in it.
C10_ExactlyTheSixUniversities ==
    Ran("universities_data") =>
        /\ \A u \in Range(universities_data.rows) :
              u.inst_all \in Range(UniversitiesOrder)
        /\ \A r \in Range(data.rows) :
              r.inst_all \in Range(UniversitiesOrder) =>
                  \E u \in Range(universities_data.rows) :
                      u.index = r.index /\ u.inst_all = r.inst_all

RateWords == <<"per 10", "rate", "percent">>

\* C11: agegroup_data holds the totals of the absolute-count statistics
\* only: each of its rows comes from a 'Total' row whose statistic is not a
\* rate, a percentage or a per-10,000 figure, in whatever letter case the
\* name is written, and every 'Total' row of such a statistic that the
\* institution filter left is in it.
C11_OnlyAbsoluteTotals ==
    Ran("agegroups") =>
        /\ \A r \in Range(agegroup_data.rows) :
              /\ file.rows[r.index + 1].equality_dimension = "Total"
              /\ ~ContainsAnyNoCase(r.statistic, RateWords)
        /\ \A k \in DOMAIN file.rows :
              (/\ Prefix(file.rows[k].inst_all, 3) \notin DroppedCodes
               /\ file.rows[k].equality_dimension = "Total"
               /\ ~ContainsAnyNoCase(file.rows[k].statistic, RateWords))
                  => \E r \in Range(agegroup_data.rows) : r.index = k - 1

\* the cell that has just run to its end
JustRan(id) == hist # <<>> /\ hist[Len(hist)] = id

\* one of the three row filters, the third with polar_cols computed from
\* the table it is applied to
RowFilter(k, df) ==
    IF k = 1 THEN InstitutionFilter(df)
    ELSE IF k = 2 THEN AgegroupFilter(df)
    ELSE PolarFilter(df, PolarCols(df))

RECURSIVE RowFilters(_, _)
RowFilters(ks, df) ==
    IF ks = <<>> THEN df ELSE RowFilters(Tail(ks), RowFilter(Head(ks), df))

\* every way of applying the three filters, one of them possibly twice
FilterOrders ==
    {ks \in UNION {[1..n -> 1..3] : n \in 3..4} : Range(ks) = 1..3}

\* the rows of a table without their labels
Content(df) == [k \in DOMAIN df.rows |-> Cells6(df.rows[k])]

\* C12: each of the three row filters is idempotent and they commute: applied
\* to the input table in any order, one of them possibly twice, they leave
\* the rows the notebook's order leaves in `data`, although polar_cols is
\* computed from the table as the earlier filters left it.
C12_FiltersCommute ==
    JustRan("polar_filter") =>
        LET input == ReadCsv(file)
        IN  /\ \A ks \in FilterOrders :
                  Content(RowFilters(ks, input)) = Content(data)
            /\ \A k \in 1..3 :
                  Content(RowFilters(<<k, k>>, input))
                      = Content(RowFilters(<<k>>, input))

C12_Witness ==
    /\ JustRan("polar_filter")
    /\ polar_cols # PolarCols(ReadCsv(file))
    /\ Len(data.rows) = 1
    /\ Len(file.rows) = 2

\* (inst_all, Cycle, agegroup, equality_dimension, statistic) identifies a
\* line of the input
InputKeyed ==
    \A i, j \in DOMAIN file.rows :
        Cells5(file.rows[i]) = Cells5(file.rows[j]) => i = j

\* C13: when (inst_all, Cycle, agegroup, equality_dimension, statistic)
\* identifies a line of the input, the pivot aggregates nothing: every cell
\* of the pivot table is computed from at most one row of universities_data
\* and equals that row's value.
C13_PivotAggregatesNothing ==
    (Ran("pivot") /\ InputKeyed) =>
        \A c \in pivot :
            /\ Cardinality(c.rows) <= 1
            /\ \A u \in Range(universities_data.rows) :
                  u.index \in c.rows => c.mean = <<u.value[1], 1>>

====
